---- MODULE Spec2Model ----
(***************************************************************************)
(* A model of app.py, the Flask stem-splitting service: POST /split        *)
(* (split_audio) and GET /download/<job_id> (download_result), run by      *)
(* concurrent request handlers that share only the filesystem.             *)
(*                                                                         *)
(* Text is modelled as a sequence of tokens.  A token is either one        *)
(* character (wherever the code splits, lowers or compares text) or a      *)
(* literal the code only ever copies whole ("uploads", "vocals", ...).     *)
(* A path is a sequence of components, each of them a text.                *)
(***************************************************************************)
EXTENDS Naturals, Sequences, FiniteSets, TLC

\* Number of POST /split requests, all of which may be in flight at once.
MaxReqs == 2

Reqs == 1..MaxReqs

----------------------------------------------------------------------------
(* Text helpers *)

Min(S) == CHOOSE x \in S : \A y \in S : x <= y
Max(S) == CHOOSE x \in S : \A y \in S : y <= x

\* str.lower() on one character (the letters the uploads below use).
lower(c) ==
    CASE c = "W" -> "w"
      [] c = "A" -> "a"
      [] c = "V" -> "v"
      [] c = "M" -> "m"
      [] c = "P" -> "p"
      [] OTHER   -> c

LowerStr(s) == [i \in 1..Len(s) |-> lower(s[i])]

DotPositions(s) == {i \in 1..Len(s) : s[i] = "."}

\* s.rsplit('.', 1) for a text that holds a '.': <<head, tail>>.
rsplit(s) ==
    LET d == Max(DotPositions(s))
    IN  <<SubSeq(s, 1, d - 1), SubSeq(s, d + 1, Len(s))>>

\* s.split('.')[1]: the piece between the first and the second '.'.
SplitFirst(s) ==
    LET d    == Min(DotPositions(s))
        rest == SubSeq(s, d + 1, Len(s))
    IN  IF DotPositions(rest) = {} THEN rest
        ELSE SubSeq(rest, 1, Min(DotPositions(rest)) - 1)

EndsWith(s, suffix) ==
    /\ Len(s) >= Len(suffix)
    /\ SubSeq(s, Len(s) - Len(suffix) + 1, Len(s)) = suffix

----------------------------------------------------------------------------
(* Module-level constants of app.py *)

UPLOAD_FOLDER == <<"uploads">>
OUTPUT_FOLDER == <<"outputs">>

ALLOWED_EXTENSIONS ==
    { <<"w", "a", "v">>, <<"m", "p", "3">>, <<"f", "l", "a", "c">>,
      <<"m", "4", "a">>, <<"a", "a", "c">> }

\* A plausible slip: the extension taken after the first '.', not the last.
allowed_file_first_dot(filename) ==
    /\ DotPositions(filename) # {}
    /\ LowerStr(SplitFirst(filename)) \in ALLOWED_EXTENSIONS

allowed_file(filename) ==
    /\ DotPositions(filename) # {}
    /\ LowerStr(rsplit(filename)[2]) \in ALLOWED_EXTENSIONS

----------------------------------------------------------------------------
(* Paths *)

\* werkzeug's secure_filename on the uploads below: characters outside
\* [A-Za-z0-9_.-] are dropped, then leading and trailing '.' and '_'.
SafeChar(c) == c \notin {"/", " "}

secure_filename(s) ==
    LET t    == SelectSeq(s, SafeChar)
        keep == {i \in 1..Len(t) : t[i] \notin {".", "_"}}
    IN  IF keep = {} THEN <<>> ELSE SubSeq(t, Min(keep), Max(keep))

\* os.path.join(dir, name), os.path.basename(path)
join(dir, name) == Append(dir, name)
basename(path) == path[Len(path)]

\* os.path.splitext(name)[0]: the text before the last '.', unless only
\* dots precede it.
splitext(name) ==
    LET d == DotPositions(name)
    IN  IF d = {} \/ (\A k \in 1..(Max(d) - 1) : name[k] = ".")
        THEN name
        ELSE SubSeq(name, 1, Max(d) - 1)

\* Path p is path q or a directory above it.
IsPrefix(p, q) == Len(p) <= Len(q) /\ \A i \in 1..Len(p) : q[i] = p[i]

----------------------------------------------------------------------------
(* The filesystem: a function from the paths that exist to what is there. *)
(* `by` is the job id of the request whose step wrote the entry (a        *)
(* history field the code does not read).                                 *)

Dir(by) == [kind |-> "dir", by |-> by, entries |-> <<>>]
File(by) == [kind |-> "file", by |-> by, entries |-> <<>>]
Zip(by, entries) == [kind |-> "zip", by |-> by, entries |-> entries]

exists(f, p) == p \in DOMAIN f

Put(f, p, what) == [q \in DOMAIN f \cup {p} |-> IF q = p THEN what ELSE f[q]]

\* os.makedirs(p, exist_ok=True)
makedirs(f, p, by) == IF exists(f, p) THEN f ELSE Put(f, p, Dir(by))

\* os.remove(p)
remove(f, p) == [q \in DOMAIN f \ {p} |-> f[q]]

----------------------------------------------------------------------------
(* The separation backend, `python -m demucs.separate`, as app.py's own   *)
(* comments describe it: --two-stems=vocals yields vocals and no_vocals,  *)
(* the full run yields drums, bass, other and vocals, in                  *)
(* <out>/htdemucs/<input name without extension>/.                        *)

WAV == <<".", "w", "a", "v">>

TwoStems == << <<"vocals">> \o WAV, <<"no_vocals">> \o WAV >>
FullStems ==
    << <<"drums">> \o WAV, <<"bass">> \o WAV, <<"other">> \o WAV,
       <<"vocals">> \o WAV >>

\* A fixed order in which os.listdir reports the names of a directory.
DirOrder ==
    << <<"vocals">> \o WAV, <<"no_vocals">> \o WAV, <<"drums">> \o WAV,
       <<"bass">> \o WAV, <<"other">> \o WAV >>

Range(s) == {s[i] : i \in 1..Len(s)}

\* What one invocation may do: exit 0 having written its stems, exit 0
\* with an empty track directory, exit 0 with nothing where app.py looks,
\* exit non-zero, exceed the 300 s timeout, or fail to start.
Outcomes == {"stems", "empty", "nothing", "nonzero", "timeout", "error"}

DemucsTrackDir(out, input) ==
    LET n == basename(input)
    IN  join(join(out, <<"htdemucs">>),
             IF DotPositions(n) = {} THEN n ELSE rsplit(n)[1])

RECURSIVE PutAll(_, _, _, _)
PutAll(f, d, names, by) ==
    IF names = <<>> THEN f
    ELSE PutAll(Put(f, join(d, Head(names)), File(by)), d, Tail(names), by)

demucs(f, stems, out, input, outcome, by) ==
    LET d  == DemucsTrackDir(out, input)
        f1 == makedirs(makedirs(f, join(out, <<"htdemucs">>), by), d, by)
    IN  CASE outcome = "stems" -> PutAll(f1, d, stems, by)
          [] outcome = "empty" -> f1
          [] OTHER             -> f

\* os.listdir(d)
listdir(f, d) ==
    SelectSeq(DirOrder, LAMBDA n : exists(f, join(d, n)))

----------------------------------------------------------------------------
(* State *)

VARIABLES
    req,         \* req[r]: the locals of request r's split_audio call
    fs,          \* the filesystem
    served       \* the job ids download_result has sent an archive for

vars == <<req, fs, served>>

NoFile == [present |-> FALSE, filename |-> <<>>]

\* The filenames a client may send.
Filenames ==
    { <<>>,
      <<"w", "a", "v">>,
      <<"a", ".", "w", "a", "v", ".", "b">>,
      <<".", "a", ".", "W", "A", "V">> }

Uploads == {NoFile} \cup {[present |-> TRUE, filename |-> n] : n \in Filenames}

\* str(uuid.uuid4()): request r draws a token no other request draws.
IdChars == <<"1", "2", "3", "4", "5", "6", "7", "8">>
uuid4(r) == <<IdChars[r]>>

NoJob == <<>>
\* Every job id of the model: the generated ones and one never generated.
JobIds == {uuid4(r) : r \in Reqs} \cup {<<"0">>}

\* The locals of a split_audio call before it has run.  rc1, rc2 (how the
\* two backend runs ended), calls (subprocess.run calls made), removed
\* (how os.remove went) and resps (the responses returned) keep what has
\* happened; the code reads rc1 and rc2 only at once after each run.
NewRequest ==
    [pc |-> "idle", upload |-> NoFile, job_id |-> NoJob, filename |-> <<>>,
     rc1 |-> "none", rc2 |-> "none", calls |-> 0,
     stem_files |-> <<>>,
     removed |-> "no", resps |-> <<>>]

Init ==
    /\ req = [r \in Reqs |-> NewRequest]
    /\ fs = Put(Put(<<>>, <<UPLOAD_FOLDER>>, Dir(NoJob)),
                <<OUTPUT_FOLDER>>, Dir(NoJob))
    /\ served = {}

----------------------------------------------------------------------------
(* The paths of a job *)

\* A plausible slip: the upload saved under its bare filename.
input_path_bare(rq) == join(<<UPLOAD_FOLDER>>, rq.filename)

input_path(rq) ==
    join(<<UPLOAD_FOLDER>>, rq.job_id \o <<"_">> \o rq.filename)

job_output_dir(rq) == join(<<OUTPUT_FOLDER>>, rq.job_id)

separated_dir(rq) ==
    join(join(job_output_dir(rq), <<"htdemucs">>),
         splitext(basename(input_path(rq))))

zip_path(rq) ==
    join(job_output_dir(rq), <<"stems_">> \o rq.job_id \o <<".zip">>)

\* download_result's zip_path
download_zip_path(job_id) ==
    join(join(<<OUTPUT_FOLDER>>, job_id),
         <<"stems_">> \o job_id \o <<".zip">>)

----------------------------------------------------------------------------
(* Responses *)

Failure(msg) ==
    [status |-> 200, success |-> FALSE, error |-> msg, job_id |-> NoJob,
     stems_created |-> <<>>]

Success(rq) ==
    [status |-> 200, success |-> TRUE, error |-> "", job_id |-> rq.job_id,
     stems_created |-> rq.stem_files]

\* A plausible slip: the failure is reported and the job is run again.
FailAndRetry(rq, msg) ==
    [rq EXCEPT !.pc = "save", !.resps = Append(@, Failure(msg))]

\* return jsonify({'success': False, 'error': msg})
Fail(rq, msg) ==
    [rq EXCEPT !.pc = "done", !.resps = Append(@, Failure(msg))]

----------------------------------------------------------------------------
(* POST /split: split_audio, one action per step of the handler *)

\* Validation, job id and sanitised filename.
Validate(r) ==
    \E up \in Uploads :
        LET rq == [req[r] EXCEPT !.upload = up]
        IN  /\ req[r].pc = "idle"
            /\ req' = [req EXCEPT ![r] =
                   IF ~up.present THEN Fail(rq, "No file uploaded")
                   ELSE IF up.filename = <<>> THEN Fail(rq, "No file selected")
                   ELSE IF ~allowed_file(up.filename)
                        THEN Fail(rq, "File type not supported")
                   ELSE [rq EXCEPT !.job_id = uuid4(r),
                                   !.filename = secure_filename(up.filename),
                                   !.pc = "save"]]
            /\ UNCHANGED <<fs, served>>

\* file.save(input_path); an OSError reaches the outer except.
Save(r) ==
    LET rq == req[r]
    IN  /\ rq.pc = "save"
        /\ \/ /\ fs' = Put(fs, input_path(rq), File(rq.job_id))
              /\ req' = [req EXCEPT ![r].pc = "mkdir"]
           \/ /\ req' = [req EXCEPT ![r] = Fail(rq, "Unexpected error")]
              /\ fs' = fs
        /\ UNCHANGED served

\* os.makedirs(job_output_dir, exist_ok=True)
MakeDirs(r) ==
    LET rq == req[r]
    IN  /\ rq.pc = "mkdir"
        /\ fs' = makedirs(fs, job_output_dir(rq), rq.job_id)
        /\ req' = [req EXCEPT ![r].pc = "run1"]
        /\ UNCHANGED served

\* A plausible slip: the exit status of the run is not looked at.
AfterRunUnchecked(rq, first, outcome) ==
    LET called == [rq EXCEPT !.calls = @ + 1]
        rc     == IF outcome = "nonzero" THEN "1" ELSE "0"
    IN  CASE outcome = "timeout" ->
               Fail(IF first THEN [called EXCEPT !.rc1 = "timeout"]
                             ELSE [called EXCEPT !.rc2 = "timeout"],
                    "Processing timeout - file may be too large")
          [] outcome = "error" ->
               Fail(IF first THEN [called EXCEPT !.rc1 = "raised"]
                             ELSE [called EXCEPT !.rc2 = "raised"],
                    "Subprocess error")
          [] OTHER ->
               IF first THEN [called EXCEPT !.rc1 = rc, !.pc = "run2"]
                        ELSE [called EXCEPT !.rc2 = rc, !.pc = "package"]

\* The request after one subprocess.run: `first` tells which of the two.
\* rc1 and rc2 record how the run ended: "0", "1" (a non-zero exit status),
\* "timeout" (TimeoutExpired) or "raised" (any other exception).
AfterRun(rq, first, outcome) ==
    LET called == [rq EXCEPT !.calls = @ + 1]
    IN  CASE outcome = "nonzero" ->
               Fail(IF first THEN [called EXCEPT !.rc1 = "1"]
                             ELSE [called EXCEPT !.rc2 = "1"],
                    IF first THEN "Demucs failed"
                             ELSE "Demucs full separation failed")
          [] outcome = "timeout" ->
               Fail(IF first THEN [called EXCEPT !.rc1 = "timeout"]
                             ELSE [called EXCEPT !.rc2 = "timeout"],
                    "Processing timeout - file may be too large")
          [] outcome = "error" ->
               Fail(IF first THEN [called EXCEPT !.rc1 = "raised"]
                             ELSE [called EXCEPT !.rc2 = "raised"],
                    "Subprocess error")
          [] OTHER ->
               IF first THEN [called EXCEPT !.rc1 = "0", !.pc = "run2"]
                        ELSE [called EXCEPT !.rc2 = "0", !.pc = "package"]

\* subprocess.run(cmd, ..., timeout=300) with --two-stems=vocals
Run1(r) ==
    \E outcome \in Outcomes :
        LET rq == req[r]
        IN  /\ rq.pc = "run1"
            /\ fs' = demucs(fs, TwoStems, job_output_dir(rq), input_path(rq),
                            outcome, rq.job_id)
            /\ req' = [req EXCEPT ![r] = AfterRun(rq, TRUE, outcome)]
            /\ UNCHANGED served

\* subprocess.run(cmd_full, ..., timeout=300)
Run2(r) ==
    \E outcome \in Outcomes :
        LET rq == req[r]
        IN  /\ rq.pc = "run2"
            /\ fs' = demucs(fs, FullStems, job_output_dir(rq), input_path(rq),
                            outcome, rq.job_id)
            /\ req' = [req EXCEPT ![r] = AfterRun(rq, FALSE, outcome)]
            /\ UNCHANGED served

\* A plausible slip: the check for the separated directory left out.
OutputMissingNever(f, d) == FALSE

\* not os.path.exists(separated_dir)
OutputMissing(f, d) == ~exists(f, d)

\* A plausible slip: zipf.write(file_path), the entry named by its path.
arcname_path(file_path, file_name) == file_path

\* zipf.write(file_path, file_name): the name of the entry written
arcname(file_path, file_name) == <<file_name>>

RECURSIVE ArcNames(_, _)
ArcNames(d, names) ==
    IF names = <<>> THEN <<>>
    ELSE arcname(join(d, Head(names)), Head(names)) \o ArcNames(d, Tail(names))

\* if not stem_files
NoStems(stem_files) == stem_files = <<>>

\* The check for separated_dir, then the `with zipfile.ZipFile(zip_path,
\* 'w')` block and the check after it.  Opening creates (or truncates) the
\* archive; the loop writes the .wav files of the listing in turn; an
\* exception may end it after any number k of entries, and leaves the
\* archive with what was written.
Package(r) ==
    LET rq   == req[r]
        d    == separated_dir(rq)
        wavs == SelectSeq(listdir(fs, d), LAMBDA n : EndsWith(n, WAV))
    IN  /\ rq.pc = "package"
        /\ IF OutputMissing(fs, d)
           THEN /\ req' = [req EXCEPT ![r] =
                       Fail(rq, "Separation output not found")]
                /\ fs' = fs
           ELSE \/ /\ req' = [req EXCEPT ![r] =
                          Fail(rq, "Failed to create ZIP file")]
                   /\ fs' = fs
                \/ \E k \in 0..Len(wavs) :
                      LET written == SubSeq(wavs, 1, k)
                          packed  == [rq EXCEPT !.stem_files = written]
                      IN  /\ fs' = Put(fs, zip_path(rq),
                                       Zip(rq.job_id, ArcNames(d, written)))
                          /\ req' = [req EXCEPT ![r] =
                                 IF k < Len(wavs)
                                 THEN Fail(packed, "Failed to create ZIP file")
                                 ELSE IF NoStems(written)
                                 THEN Fail(packed, "No stem files were created")
                                 ELSE [packed EXCEPT !.pc = "cleanup"]]
        /\ UNCHANGED served

\* A plausible slip: the failed deletion reaches the outer except.
RemoveFailedFatal(rq) ==
    Fail([rq EXCEPT !.removed = "failed"], "Unexpected error")

\* except: pass
RemoveFailed(rq) == [rq EXCEPT !.removed = "failed"]

\* return jsonify({'success': True, 'job_id': ..., 'stems_created': ...})
Return(rq) ==
    IF rq.pc = "done" THEN rq
    ELSE [rq EXCEPT !.pc = "done", !.resps = Append(@, Success(rq))]

\* os.remove(input_path) inside try / except: pass, then the response.
Cleanup(r) ==
    LET rq == req[r]
    IN  /\ rq.pc = "cleanup"
        /\ \/ /\ exists(fs, input_path(rq))
              /\ fs' = remove(fs, input_path(rq))
              /\ req' = [req EXCEPT ![r] = Return([rq EXCEPT !.removed = "ok"])]
           \/ /\ req' = [req EXCEPT ![r] = Return(RemoveFailed(rq))]
              /\ fs' = fs
        /\ UNCHANGED served

----------------------------------------------------------------------------
(* GET /download/<job_id>: download_result *)

\* A plausible slip: the archive deleted once it has been sent.
send_file_once(f, p) == remove(f, p)

\* send_file(zip_path, ...) reads the archive and leaves it in place.
send_file(f, p) == f

\* What download_result answers for job_id in the current state.
download_result(job_id) ==
    LET p == download_zip_path(job_id)
    IN  IF exists(fs, p)
        THEN [status |-> 200,
              download_name |-> <<"stems_">> \o job_id \o <<".zip">>,
              entries |-> fs[p].entries]
        ELSE [status |-> 404, download_name |-> <<>>, entries |-> <<>>]

\* The job ids a client can ask for: those a /split response gave out, and
\* one that was never issued (a uuid4 is not guessed).  For every other id
\* download_result(job_id) tells what the handler would answer.
KnownIds ==
    {req[r].resps[1].job_id :
        r \in {x \in Reqs : req[x].resps # <<>> /\ req[x].resps[1].success}}
    \cup {<<"0">>}

Download(job_id) ==
    /\ job_id \in KnownIds
    /\ IF download_result(job_id).status = 200
       THEN /\ served' = served \cup {job_id}
            /\ fs' = send_file(fs, download_zip_path(job_id))
            /\ UNCHANGED req
       ELSE UNCHANGED vars

----------------------------------------------------------------------------

\* One step of request r's split_audio call.
split_audio(r) ==
    \/ Validate(r)
    \/ Save(r)
    \/ MakeDirs(r)
    \/ Run1(r)
    \/ Run2(r)
    \/ Package(r)
    \/ Cleanup(r)

Next ==
    \/ \E r \in Reqs : split_audio(r)
    \/ \E job_id \in JobIds : Download(job_id)

Spec == Init /\ [][Next]_vars

----------------------------------------------------------------------------
(* Properties *)

Responded(rq) == rq.resps # <<>>
Resp(rq) == rq.resps[1]
Succeeded(rq) == Responded(rq) /\ Resp(rq).success
Failed(rq) == Responded(rq) /\ ~Resp(rq).success
Created(rq) == rq.job_id # NoJob

\* The upload has an extension, the text after its last '.', that is on
\* the allow-list when lowered.
ExtensionAllowed(f) ==
    \E k \in 1..Len(f) :
        /\ f[k] = "."
        /\ \A m \in (k + 1)..Len(f) : f[m] # "."
        /\ LowerStr(SubSeq(f, k + 1, Len(f))) \in ALLOWED_EXTENSIONS

Invalid(up) ==
    \/ ~up.present
    \/ up.filename = <<>>
    \/ ~ExtensionAllowed(up.filename)

\* C1: a request whose upload fails validation (no file part, an empty
\* filename, or an extension that is not allow-listed) is answered
\* success:false and has no side effects: no job id, no saved upload, no
\* output directory, nothing on disk written for it, no backend run.
C1_RejectedNoSideEffects ==
    \A r \in Reqs :
        LET rq == req[r]
        IN  (rq.pc # "idle" /\ Invalid(rq.upload)) =>
                /\ Failed(rq)
                /\ rq.pc = "done"
                /\ ~Created(rq)
                /\ rq.calls = 0
                /\ \A p \in DOMAIN fs : fs[p].by # uuid4(r)

\* A rejected upload whose first-dot piece is "wav", beside a job that ran
\* to success.
C1_Witness ==
    \E r, s \in Reqs :
        /\ r # s
        /\ req[r].upload.filename = <<"a", ".", "w", "a", "v", ".", "b">>
        /\ Failed(req[r])
        /\ Resp(req[r]).error = "File type not supported"
        /\ Succeeded(req[s])

BackendFailed(rq) ==
    \/ rq.rc1 \in {"1", "timeout", "raised"}
    \/ rq.rc2 \in {"1", "timeout", "raised"}

\* C2: a job one of whose backend invocations failed (non-zero exit of
\* the first or second run, a timeout, an exception) is answered
\* success:false, has no archive in any later state, and /download for
\* its id answers 404.
C2_BackendFailureNoArchive ==
    \A r \in Reqs :
        LET rq == req[r]
        IN  BackendFailed(rq) =>
                /\ Failed(rq)
                /\ ~exists(fs, zip_path(rq))
                /\ download_result(rq.job_id).status = 404

\* The second run failed after the first had written its stems.
C2_Witness ==
    \E r \in Reqs :
        /\ req[r].rc2 = "1"
        /\ Failed(req[r])
        /\ exists(fs, join(separated_dir(req[r]), TwoStems[1]))

\* C3 as stated: the job id of a successful job fetches the ZIP exactly
\* once; once it has been fetched, /download no longer serves it.
C3_UsableExactlyOnce ==
    \A r \in Reqs :
        LET rq == req[r]
            d  == download_result(rq.job_id)
        IN  Succeeded(rq) =>
                IF rq.job_id \in served
                THEN d.status = 404
                ELSE d.status = 200 /\ d.entries # <<>>

\* C3 amended: the job id of a successful job fetches a ZIP with at least
\* one stem file, the very stems the response listed, however often it
\* has been fetched before.
C3_UsableRepeatedly ==
    \A r \in Reqs :
        LET rq == req[r]
            d  == download_result(rq.job_id)
        IN  Succeeded(rq) =>
                /\ d.status = 200
                /\ Len(d.entries) >= 1
                /\ d.entries = Resp(rq).stems_created

\* A successful job whose archive has been fetched and can be fetched again.
C3_Witness ==
    \E r \in Reqs :
        /\ Succeeded(req[r])
        /\ req[r].job_id \in served
        /\ download_result(req[r].job_id).status = 200

\* C4: no job is separated more than once, and a job that succeeded was
\* separated exactly once.
C4_OneSeparationRun ==
    \A r \in Reqs :
        /\ req[r].calls <= 1
        /\ Succeeded(req[r]) => req[r].calls = 1

\* The two places a job keeps its files: its upload and its output directory.
Roots(rq) == {input_path(rq), job_output_dir(rq)}

Under(roots, p) == \E root \in roots : IsPrefix(root, p)

\* C5: under every interleaving, every path a job's steps name (its
\* separated directory and the stems in it, the backend's track directory,
\* its archive as /split and as /download name it) is, or lies under, the
\* job's upload path or its output directory; for two distinct jobs none of
\* these is, or lies under, one of the other job's; and what is on disk
\* there is exactly what that job wrote.
C5_JobsShareNoPath ==
    \A r \in Reqs :
        LET rq    == req[r]
            roots == Roots(rq)
            out   == job_output_dir(rq)
            sep   == separated_dir(rq)
        IN  Created(rq) =>
                /\ IsPrefix(out, sep)
                /\ IsPrefix(out, DemucsTrackDir(out, input_path(rq)))
                /\ IsPrefix(out, zip_path(rq))
                /\ IsPrefix(out, download_zip_path(rq.job_id))
                /\ \A s \in Reqs \ {r} :
                       Created(req[s]) =>
                           \A p \in Roots(req[s]) : ~Under(roots, p)
                /\ \A p \in DOMAIN fs :
                       fs[p].by = rq.job_id <=> Under(roots, p)

\* Two jobs for uploads of the same name, both about to be packaged, each
\* with its upload and its stems on disk.
C5_Witness ==
    \E r, s \in Reqs :
        /\ r # s
        /\ req[r].pc = "package" /\ req[s].pc = "package"
        /\ req[r].filename = req[s].filename
        /\ exists(fs, input_path(req[r])) /\ exists(fs, input_path(req[s]))
        /\ exists(fs, join(separated_dir(req[r]), FullStems[1]))
        /\ exists(fs, join(separated_dir(req[s]), FullStems[1]))

\* C6: once packaging has succeeded the upload is deleted before the
\* response, and a deletion that fails is swallowed: the response is
\* success:true with the job id either way, and the archive holds what
\* was packed.
C6_CleanupSwallowed ==
    \A r \in Reqs :
        LET rq == req[r]
        IN  /\ rq.removed # "no" =>
                /\ Succeeded(rq)
                /\ Resp(rq).job_id = rq.job_id
                /\ exists(fs, zip_path(rq))
                /\ fs[zip_path(rq)].entries = Resp(rq).stems_created
            /\ Succeeded(rq) =>
                /\ rq.removed \in {"ok", "failed"}
                /\ rq.removed = "ok" => ~exists(fs, input_path(rq))

\* A successful job whose upload could not be deleted and is still there.
C6_Witness ==
    \E r \in Reqs :
        /\ req[r].removed = "failed"
        /\ Succeeded(req[r])
        /\ exists(fs, input_path(req[r]))

ErrorKinds ==
    {"No file uploaded", "No file selected", "File type not supported",
     "Demucs failed", "Demucs full separation failed",
     "Processing timeout - file may be too large", "Subprocess error",
     "Separation output not found", "No stem files were created",
     "Failed to create ZIP file", "Unexpected error"}

\* The positions at which split_audio(r) has a step to take.
ActivePcs == {"idle", "save", "mkdir", "run1", "run2", "package", "cleanup"}

\* C7: a request that has not answered can take a step; it answers once,
\* with status 200 and a boolean success; a failure carries an error
\* string of one of the kinds, and ends the job: no step of it runs again.
C7_OneResponseNoRetry ==
    \A r \in Reqs :
        LET rq == req[r]
        IN  /\ Len(rq.resps) <= 1
            /\ rq.pc = "done" <=> Responded(rq)
            /\ ~Responded(rq) => rq.pc \in ActivePcs
            /\ Responded(rq) =>
                /\ Resp(rq).status = 200
                /\ Resp(rq).success \in BOOLEAN
                /\ Resp(rq).success => Resp(rq).error = ""
                /\ ~Resp(rq).success => Resp(rq).error \in ErrorKinds
            /\ (rq.pc # "idle" /\ ~rq.upload.present) =>
                   Failed(rq) /\ Resp(rq).error = "No file uploaded"
            /\ (rq.rc1 = "timeout" \/ rq.rc2 = "timeout") =>
                   Failed(rq)
                   /\ Resp(rq).error = "Processing timeout - file may be too large"
            /\ rq.rc1 = "1" => Failed(rq) /\ Resp(rq).error = "Demucs failed"

\* One job ended by a backend timeout, another by an empty stem list.
C7_Witness ==
    \E r, s \in Reqs :
        /\ Failed(req[r])
        /\ Resp(req[r]).error = "Processing timeout - file may be too large"
        /\ Failed(req[s])
        /\ Resp(req[s]).error = "No stem files were created"

StemFileNames ==
    {<<n>> \o WAV : n \in {"vocals", "drums", "bass", "other", "no_vocals"}}

\* C8: the entries of every archive on disk are among vocals.wav,
\* drums.wav, bass.wav, other.wav and no_vocals.wav, and a success
\* response lists exactly the entries of the job's archive.
C8_ArchiveEntries ==
    /\ \A p \in DOMAIN fs :
           fs[p].kind = "zip" => Range(fs[p].entries) \subseteq StemFileNames
    /\ \A r \in Reqs :
           Succeeded(req[r]) =>
               /\ exists(fs, zip_path(req[r]))
               /\ Resp(req[r]).stems_created = fs[zip_path(req[r])].entries

\* A successful job whose archive holds all five stems.
C8_Witness ==
    \E r \in Reqs :
        /\ Succeeded(req[r])
        /\ Len(fs[zip_path(req[r])].entries) = 5

\* C9: the backend runs only once the upload is saved and the output
\* directory made; the second run only after the first exited 0; the
\* archive is there only after both runs exited 0 and the separated
\* directory exists; the upload is deleted only after the archive holds
\* every stem; and a failed job has stopped, with no later stage done.
C9_StageOrder ==
    \A r \in Reqs :
        LET rq == req[r]
        IN  Created(rq) =>
                /\ rq.calls > 0 =>
                       /\ exists(fs, job_output_dir(rq))
                       /\ exists(fs, input_path(rq)) \/ rq.removed = "ok"
                /\ rq.rc2 # "none" => rq.rc1 = "0"
                /\ exists(fs, zip_path(rq)) =>
                       /\ rq.rc1 = "0" /\ rq.rc2 = "0"
                       /\ exists(fs, separated_dir(rq))
                /\ rq.removed # "no" =>
                       /\ exists(fs, zip_path(rq))
                       /\ fs[zip_path(rq)].entries
                              = listdir(fs, separated_dir(rq))
                /\ Failed(rq) =>
                       /\ rq.pc = "done"
                       /\ rq.removed = "no"
                       /\ BackendFailed(rq) => ~exists(fs, zip_path(rq))
                       /\ rq.calls = 0 => ~exists(fs, job_output_dir(rq))

\* One job went through every stage and deleted its upload; another
\* stopped at the second backend run.
C9_Witness ==
    \E r, s \in Reqs :
        /\ Succeeded(req[r]) /\ req[r].removed = "ok"
        /\ Failed(req[s]) /\ req[s].rc2 = "timeout"

\* C10: /download serves an archive only for a job whose /split answered
\* success:true, with at least one stem in it; for a job that failed or
\* has not answered it answers 404.
C10_ArchiveOnlyAfterSuccess ==
    \A job_id \in JobIds :
        download_result(job_id).status = 200 =>
            /\ download_result(job_id).entries # <<>>
            /\ \E r \in Reqs :
                   req[r].job_id = job_id /\ Succeeded(req[r])

====
